---- MODULE Spec2Model ----
(***************************************************************************)
(* Model of the protected API route of the Userfront / Next.js example     *)
(* (app/api/protected-route/route.ts): the GET handler, the jwt.verify     *)
(* call it makes with { algorithms: ['RS256'] }, and the getUser call it   *)
(* awaits.  Several requests are handled concurrently; each one runs the   *)
(* synchronous part of GET in one step (JavaScript runs to completion up   *)
(* to the first await) and resumes after its getUser promise has settled.  *)
(***************************************************************************)
EXTENDS Naturals, Sequences, FiniteSets, TLC

\* Number of requests handled concurrently.
NumRequests == 2

Requests == 1..NumRequests

(***************************************************************************)
(* JavaScript values                                                       *)
(***************************************************************************)
\* headers.get('authorization') returns null when the header is absent.
\* split(' ') never yields an empty array, so the empty sequence is free
\* to stand for null.
NoHeader == << >>

\* the value of an array index out of range, of a missing property
Undefined == "<undefined>"

\* a promise resolved with null (the collaborator's "not found" value)
JsNull == [type |-> "null", userId |-> Undefined]

UserRecord(u) == [type |-> "object", userId |-> u]

(***************************************************************************)
(* Keys and tokens                                                         *)
(***************************************************************************)
IssuerPub == "issuer-public-key"
IssuerPriv == "issuer-private-key"
AttackerPriv == "attacker-private-key"
\* process.env.USERFRONT_JWT_PUBLIC_KEY unset
MissingKey == Undefined
\* a value that is not a PEM public key
GarbageKey == "not-a-pem"

KeyConfigs == {IssuerPub, MissingKey, GarbageKey}

NoSig == [alg |-> "none", signer |-> "none"]

ObjPayload(u) == [type |-> "object", userId |-> u]
StrPayload == [type |-> "string", userId |-> Undefined]

Jwt(a, s, e, p) == [alg |-> a, sig |-> s, expired |-> e, payload |-> p]

RsIssuer == [alg |-> "RS256", signer |-> IssuerPriv]

\* The three-segment tokens of the model, by their compact serialization,
\* with what their segments decode to.
JwtTable ==
     "good.u1"     :> Jwt("RS256", RsIssuer, FALSE, ObjPayload("u1"))
  @@ "good.u2"     :> Jwt("RS256", RsIssuer, FALSE, ObjPayload("u2"))
  @@ "expired.u1"  :> Jwt("RS256", RsIssuer, TRUE, ObjPayload("u1"))
  @@ "wrongkey.u1" :> Jwt("RS256", [alg |-> "RS256", signer |-> AttackerPriv],
                          FALSE, ObjPayload("u1"))
  @@ "hs256.u1"    :> Jwt("HS256", [alg |-> "HS256", signer |-> IssuerPub],
                          FALSE, ObjPayload("u1"))
  @@ "nosig.u1"    :> Jwt("RS256", NoSig, FALSE, ObjPayload("u1"))
  @@ "nouserid"    :> Jwt("RS256", RsIssuer, FALSE, ObjPayload(Undefined))
  @@ "emptyuserid" :> Jwt("RS256", RsIssuer, FALSE, ObjPayload(""))
  @@ "strpayload"  :> Jwt("RS256", RsIssuer, FALSE, StrPayload)

JwtStrings == DOMAIN JwtTable

\* a string that is not three dot-separated segments
MalformedToken == "garbage"

\* Authorization header values, as the parts split(' ') cuts them into.
\* "good.u2" travels under the Basic scheme.
Headers ==
     {NoHeader, <<"">>, <<"Bearer">>, <<"Bearer", "">>}
  \cup {<<"Bearer", t>> : t \in (JwtStrings \ {"good.u2"}) \cup {MalformedToken}}
  \cup {<<"Basic", "good.u2">>}

VARIABLES
  JWT_PUBLIC_KEY,   \* module-level constant read from the environment
  pc,               \* per request: position of its GET invocation
  header,           \* per request: its Authorization header
  calls,            \* per request: the getUser call it made
  resp,             \* per request: the responses GET returned
  log,              \* per request: what console.error recorded
  verifyCalls,      \* per request: number of jwt.verify invocations
  lookupCalls,      \* per request: number of getUser invocations
  cancelled         \* per request: client went away during the lookup

routeVars == <<JWT_PUBLIC_KEY, pc, header, calls, resp, log, verifyCalls,
               lookupCalls, cancelled>>

\* The client side: SecureLayout and, inside it, the dashboard page with its
\* UserDataComponent.
VARIABLES
  isAuthenticated,  \* useUserfront().isAuthenticated as last rendered
  isLoading,        \* useUserfront().isLoading as last rendered
  router,           \* useRouter() returned a router
  layout,           \* what SecureLayout rendered
  effectPending,    \* SecureLayout's effect is scheduled
  userData,         \* UserDataComponent state
  loading,          \* UserDataComponent state
  error,            \* UserDataComponent state
  fetchDue,         \* UserDataComponent's effect is scheduled
  run,              \* the runs of fetchUserData in flight
  uiEvent           \* what the last client-side step did

uiVars == <<isAuthenticated, isLoading, router, layout, effectPending,
            userData, loading, error, fetchDue, run, uiEvent>>

vars == <<routeVars, uiVars>>


(***************************************************************************)
(* jwt.verify(token, JWT_PUBLIC_KEY, { algorithms: ['RS256'] })            *)
(***************************************************************************)
Algorithms == {"RS256"}

Threw(msg) == [threw |-> TRUE, error |-> msg, value |-> JsNull]
Returned(v) == [threw |-> FALSE, error |-> "", value |-> v]

\* the key parses as an asymmetric public key
IsPublicKey(key) == key = IssuerPub

\* the signature was made with algorithm alg and verifies under key: an
\* RS256 signature under the public half of the signer's key pair, an HS256
\* one under the very secret that made it
SigValid(sig, alg, key) ==
  /\ sig.alg = alg
  /\ \/ alg = "RS256" /\ sig.signer = IssuerPriv /\ key = IssuerPub
     \/ alg = "HS256" /\ sig.signer = key

\* jwt.decode in place of jwt.verify: the payload of any decodable token
JwtDecodeOnly(token, key) ==
  IF token \in JwtStrings THEN Returned(JwtTable[token].payload)
  ELSE Threw("jwt malformed")

\* The checks of jsonwebtoken's verify, in its order.
JwtVerify(token, key) ==
  IF token = Undefined \/ token = "" THEN Threw("jwt must be provided")
  ELSE IF token \notin JwtStrings THEN Threw("jwt malformed")
  ELSE LET d == JwtTable[token]
           hasSignature == d.sig # NoSig
       IN IF ~hasSignature /\ key # Undefined
            THEN Threw("jwt signature is required")
          ELSE IF hasSignature /\ key = Undefined
            THEN Threw("secret or public key must be provided")
          ELSE IF d.alg \notin Algorithms THEN Threw("invalid algorithm")
          ELSE IF key = Undefined THEN Threw("TypeError")
          ELSE IF ~IsPublicKey(key)
            THEN Threw("secretOrPublicKey must be an asymmetric key")
          ELSE IF ~SigValid(d.sig, d.alg, key) THEN Threw("invalid signature")
          ELSE IF d.expired THEN Threw("jwt expired")
          ELSE Returned(d.payload)

(***************************************************************************)
(* The pieces of GET                                                       *)
(***************************************************************************)
\* !authHeader: null or the empty string
IsFalsyMut(authHeader) == authHeader = <<"">>
IsFalsy(authHeader) == authHeader = NoHeader \/ authHeader = <<"">>

\* authHeader.split(' ')[0]
ExtractTokenFirst(authHeader) == authHeader[1]
\* authHeader.split(' ')[1]
ExtractToken(authHeader) ==
  IF Len(authHeader) >= 2 THEN authHeader[2] ELSE Undefined

\* typeof decoded === 'string' alone, the userId never looked at
PayloadInvalidTypeOnly(decoded) == decoded.type = "string"
\* typeof decoded === 'string' || !decoded.userId
PayloadInvalid(decoded) ==
  decoded.type = "string" \/ decoded.userId \in {Undefined, ""}

NoHeaderResponse ==
  [status |-> 401, body |-> [error |-> "No authorization header"]]

\* the catch block answering with the message of what it caught
CatchResponseLeaky(caught) == [status |-> 401, body |-> [error |-> caught]]
\* the catch block rethrowing: the framework answers 500
CatchResponseRethrow(caught) ==
  [status |-> 500, body |-> [error |-> "Internal Server Error"]]
CatchResponse(caught) ==
  [status |-> 401, body |-> [error |-> "Authentication failed"]]

\* NextResponse.json({ userData }), status 200 by default
OkResponse(record) == [status |-> 200, body |-> [userData |-> record]]

NoCall == [state |-> "none", userId |-> Undefined, value |-> JsNull]

\* a userData kept in one module-level variable: the continuation reads
\* whichever call settled, not its own
AwaitedShared(r) ==
  IF \E q \in Requests : calls[q].state \in {"resolved", "rejected"}
    THEN calls[CHOOSE q \in Requests : calls[q].state \in {"resolved", "rejected"}]
    ELSE calls[r]
\* const userData = await userfront.getUser(userId): the promise of the
\* request's own call
Awaited(r) == calls[r]

(***************************************************************************)
(* The client side: SecureLayout and UserDataComponent                     *)
(***************************************************************************)
\* Number of fetchUserData runs that can be in flight at once.
MaxRuns == 2

Runs == 1..MaxRuns

\* if (!isAuthenticated || isLoading) return null; return children
Render(authenticated, isloading) ==
  IF ~authenticated \/ isloading THEN "null" ELSE "children"

\* SecureLayout's effect returning early
\* if (isAuthenticated || !router) return, the loading state never looked at
EffectSkipsIgnoringLoading(authenticated, isloading, hasRouter) ==
  authenticated \/ ~hasRouter
\* if (isAuthenticated || isLoading || !router) return
EffectSkips(authenticated, isloading, hasRouter) ==
  authenticated \/ isloading \/ ~hasRouter

JsUndefined == [type |-> "undefined", userId |-> Undefined]
\* useState<string | null>(null)
NullError == "<null>"

\* the three useState values of UserDataComponent
Comp == [userData |-> userData, loading |-> loading, error |-> error]
\* useState(null), useState(true), useState(null)
FreshComp == [userData |-> JsNull, loading |-> TRUE, error |-> NullError]

\* if (!accessToken) { setLoading(false); setError('Not authenticated') }
NoTokenPath(c) == [c EXCEPT !.loading = FALSE, !.error = "Not authenticated"]

ErrorText(msg) ==
  CASE msg = "HTTP error! status: 401" ->
         "Error fetching user data: HTTP error! status: 401"
    [] msg = "HTTP error! status: 500" ->
         "Error fetching user data: HTTP error! status: 500"
    [] msg = "Failed to fetch" -> "Error fetching user data: Failed to fetch"
    [] msg = "Unexpected token" -> "Error fetching user data: Unexpected token"
    [] OTHER -> "Error fetching user data: TypeError"

\* the catch block without the finally block
CatchNoFinally(c, msg) == [c EXCEPT !.error = ErrorText(msg)]
\* catch (err) { setError(...) } finally { setLoading(false) }
CatchFinally(c, msg) == [c EXCEPT !.error = ErrorText(msg), !.loading = FALSE]

\* setUserData(data.userData), then finally { setLoading(false) }
SuccessFinally(c, value) == [c EXCEPT !.userData = value, !.loading = FALSE]

IdleRun == [pc |-> "idle", live |-> FALSE]
NoEvent == [kind |-> "none", live |-> FALSE, value |-> JsNull]

UIInit ==
  /\ isAuthenticated = FALSE
  /\ isLoading = TRUE
  /\ router = FALSE
  /\ layout = "unmounted"
  /\ effectPending = FALSE
  /\ userData = FreshComp.userData
  /\ loading = FreshComp.loading
  /\ error = FreshComp.error
  /\ fetchDue = FALSE
  /\ run = [k \in Runs |-> IdleRun]
  /\ uiEvent = NoEvent

(***************************************************************************)
(* State machine                                                           *)
(***************************************************************************)
Init ==
  /\ JWT_PUBLIC_KEY \in KeyConfigs
  /\ pc = [r \in Requests |-> "Idle"]
  /\ header = [r \in Requests |-> NoHeader]
  /\ calls = [r \in Requests |-> NoCall]
  /\ resp = [r \in Requests |-> << >>]
  /\ log = [r \in Requests |-> ""]
  /\ verifyCalls = [r \in Requests |-> 0]
  /\ lookupCalls = [r \in Requests |-> 0]
  /\ cancelled = [r \in Requests |-> FALSE]
  /\ UIInit

\* The framework hands a request to GET.
Receive(r, h) ==
  /\ pc[r] = "Idle"
  /\ pc' = [pc EXCEPT ![r] = "Received"]
  /\ header' = [header EXCEPT ![r] = h]
  /\ UNCHANGED <<JWT_PUBLIC_KEY, calls, resp, log, verifyCalls, lookupCalls,
                 cancelled>>
  /\ UNCHANGED uiVars

\* return of a response from GET
Respond(r, response) ==
  /\ resp' = [resp EXCEPT ![r] = Append(@, response)]
  /\ pc' = [pc EXCEPT ![r] = "Responded"]

\* the catch block: console.error, then the 401
Catch(r, caught) ==
  /\ log' = [log EXCEPT ![r] = caught]
  /\ Respond(r, CatchResponse(caught))

\* GET from its entry to its first await (or to its return).
GET_Start(r) ==
  /\ pc[r] = "Received"
  /\ LET authHeader == header[r] IN
     IF IsFalsy(authHeader)
       THEN /\ Respond(r, NoHeaderResponse)
            /\ UNCHANGED <<log, verifyCalls, lookupCalls, calls>>
     ELSE IF authHeader = NoHeader
       THEN \* null.split
            /\ Catch(r, "TypeError")
            /\ UNCHANGED <<verifyCalls, lookupCalls, calls>>
     ELSE LET token == ExtractToken(authHeader)
              v == JwtVerify(token, JWT_PUBLIC_KEY)
          IN /\ verifyCalls' = [verifyCalls EXCEPT ![r] = @ + 1]
             /\ IF v.threw
                  THEN /\ Catch(r, v.error)
                       /\ UNCHANGED <<lookupCalls, calls>>
                ELSE IF PayloadInvalid(v.value)
                  THEN /\ Catch(r, "Invalid token payload")
                       /\ UNCHANGED <<lookupCalls, calls>>
                ELSE /\ lookupCalls' = [lookupCalls EXCEPT ![r] = @ + 1]
                     /\ calls' = [calls EXCEPT ![r] =
                          [state |-> "pending", userId |-> v.value.userId,
                           value |-> JsNull]]
                     /\ pc' = [pc EXCEPT ![r] = "AwaitingLookup"]
                     /\ UNCHANGED <<resp, log>>
  /\ UNCHANGED <<JWT_PUBLIC_KEY, header, cancelled>>
  /\ UNCHANGED uiVars

\* The collaborator settles the getUser call of request r: it resolves with
\* the record of the userId it was asked for, resolves with its not-found
\* value, or rejects.
GetUserSettle(r, outcome) ==
  /\ calls[r].state = "pending"
  /\ calls' = [calls EXCEPT ![r] =
       CASE outcome = "record" ->
              [state |-> "resolved", userId |-> calls[r].userId,
               value |-> UserRecord(calls[r].userId)]
         [] outcome = "notfound" ->
              [state |-> "resolved", userId |-> calls[r].userId,
               value |-> JsNull]
         [] outcome = "error" ->
              [state |-> "rejected", userId |-> calls[r].userId,
               value |-> JsNull]]
  /\ UNCHANGED <<JWT_PUBLIC_KEY, pc, header, resp, log, verifyCalls,
                 lookupCalls, cancelled>>
  /\ UNCHANGED uiVars

LookupOutcomes == {"record", "notfound", "error"}

\* GET from the await to its return.
GET_Resume(r) ==
  /\ pc[r] = "AwaitingLookup"
  /\ Awaited(r).state \in {"resolved", "rejected"}
  /\ IF Awaited(r).state = "rejected"
       THEN Catch(r, "getUser failed")
       ELSE /\ Respond(r, OkResponse(Awaited(r).value))
            /\ UNCHANGED log
  /\ UNCHANGED <<JWT_PUBLIC_KEY, header, calls, verifyCalls, lookupCalls,
                 cancelled>>
  /\ UNCHANGED uiVars

\* The client goes away (or the request times out) while the lookup is
\* outstanding.  GET never reads request.signal.
Cancel(r) ==
  /\ pc[r] = "AwaitingLookup"
  /\ ~cancelled[r]
  /\ cancelled' = [cancelled EXCEPT ![r] = TRUE]
  /\ UNCHANGED <<JWT_PUBLIC_KEY, pc, header, calls, resp, log, verifyCalls,
                 lookupCalls>>
  /\ UNCHANGED uiVars

Next ==
  \/ \E r \in Requests, h \in Headers : Receive(r, h)
  \/ \E r \in Requests : GET_Start(r)
  \/ \E r \in Requests, o \in LookupOutcomes : GetUserSettle(r, o)
  \/ \E r \in Requests : GET_Resume(r)
  \/ \E r \in Requests : Cancel(r)

Spec == Init /\ [][Next]_vars

\* The runtime keeps running the handlers and continuations that are ready,
\* and a lookup that is outstanding returns or fails: while some such step
\* is possible, one of them is taken.  (Fairness for each request apart
\* implies this condition.)
FairSpec ==
  /\ Spec
  /\ WF_vars(\E r \in Requests :
               \/ GET_Start(r)
               \/ \E o \in LookupOutcomes : GetUserSettle(r, o)
               \/ GET_Resume(r))

(***************************************************************************)
(* Client-side state machine.  React flushes the effects of a render       *)
(* before it renders again, so no render happens while an effect is        *)
(* scheduled.  The state of UserDataComponent exists while SecureLayout    *)
(* renders its children; a run of fetchUserData that outlives the instance *)
(* that started it calls setters that no longer change anything.           *)
(***************************************************************************)
SetComp(c) ==
  /\ userData' = c.userData
  /\ loading' = c.loading
  /\ error' = c.error

\* UserDataComponent mounts or unmounts as SecureLayout's output changes.
ChildFollows(newLayout) ==
  IF newLayout = "children" /\ layout # "children"
    THEN /\ SetComp(FreshComp)
         /\ fetchDue' = TRUE
         /\ UNCHANGED run
  ELSE IF newLayout # "children" /\ layout = "children"
    THEN /\ SetComp(FreshComp)
         /\ fetchDue' = FALSE
         /\ run' = [k \in Runs |-> [run[k] EXCEPT !.live = FALSE]]
  ELSE UNCHANGED <<userData, loading, error, fetchDue, run>>

\* Navigation to a page under (secure): first render of SecureLayout.
Mount(hasRouter) ==
  /\ layout = "unmounted"
  /\ router' = hasRouter
  /\ layout' = Render(isAuthenticated, isLoading)
  /\ effectPending' = TRUE
  /\ ChildFollows(Render(isAuthenticated, isLoading))
  /\ uiEvent' = NoEvent
  /\ UNCHANGED <<isAuthenticated, isLoading>>
  /\ UNCHANGED routeVars

\* The authentication state changes; a mounted SecureLayout renders again.
AuthChange(authenticated, isloading) ==
  /\ <<authenticated, isloading>> # <<isAuthenticated, isLoading>>
  /\ ~effectPending /\ ~fetchDue
  /\ isAuthenticated' = authenticated
  /\ isLoading' = isloading
  /\ IF layout = "unmounted"
       THEN UNCHANGED <<layout, effectPending, userData, loading, error,
                        fetchDue, run>>
       ELSE /\ layout' = Render(authenticated, isloading)
            /\ effectPending' = TRUE
            /\ ChildFollows(Render(authenticated, isloading))
  /\ uiEvent' = NoEvent
  /\ UNCHANGED router
  /\ UNCHANGED routeVars

\* Navigation away from the pages under (secure).
Unmount ==
  /\ layout # "unmounted"
  /\ ~effectPending /\ ~fetchDue
  /\ layout' = "unmounted"
  /\ router' = FALSE
  /\ ChildFollows("unmounted")
  /\ uiEvent' = NoEvent
  /\ UNCHANGED <<isAuthenticated, isLoading, effectPending>>
  /\ UNCHANGED routeVars

\* SecureLayout's effect.
LayoutEffect ==
  /\ effectPending
  /\ effectPending' = FALSE
  /\ uiEvent' = IF EffectSkips(isAuthenticated, isLoading, router)
                  THEN NoEvent
                  ELSE [kind |-> "push", live |-> TRUE, value |-> JsNull]
  /\ UNCHANGED <<isAuthenticated, isLoading, router, layout, userData,
                 loading, error, fetchDue, run>>
  /\ UNCHANGED routeVars

\* UserDataComponent renders again with another userfront object: its
\* effect, which depends on [userfront], is scheduled again.
UserfrontChanged ==
  /\ layout = "children"
  /\ ~effectPending /\ ~fetchDue
  /\ fetchDue' = TRUE
  /\ uiEvent' = NoEvent
  /\ UNCHANGED <<isAuthenticated, isLoading, router, layout, effectPending,
                 userData, loading, error, run>>
  /\ UNCHANGED routeVars

\* the run slot a new run takes
FreeSlot(k) ==
  /\ run[k].pc = "idle"
  /\ \A j \in Runs : run[j].pc = "idle" => k <= j

\* The return of fetchUserData, from the run in slot k.
EndRun(k, c, kind, value) ==
  /\ run' = [run EXCEPT ![k] = IdleRun]
  /\ IF run[k].live THEN SetComp(c) ELSE UNCHANGED <<userData, loading, error>>
  /\ uiEvent' = [kind |-> kind, live |-> run[k].live, value |-> value]

\* UserDataComponent's effect: fetchUserData up to its first await.
StartRun(k, hasToken) ==
  /\ fetchDue /\ layout = "children"
  /\ FreeSlot(k)
  /\ fetchDue' = FALSE
  /\ IF ~hasToken
       THEN /\ SetComp(NoTokenPath(Comp))
            /\ uiEvent' = [kind |-> "notAuthenticated", live |-> TRUE,
                           value |-> JsNull]
            /\ UNCHANGED run
       ELSE /\ run' = [run EXCEPT ![k] = [pc |-> "fetching", live |-> TRUE]]
            /\ uiEvent' = [kind |-> "requested", live |-> TRUE,
                           value |-> JsNull]
            /\ UNCHANGED <<userData, loading, error>>
  /\ UNCHANGED <<isAuthenticated, isLoading, router, layout, effectPending>>
  /\ UNCHANGED routeVars

FetchOutcomes == {"ok", "status401", "status500", "networkError"}

\* The fetch settles: fetchUserData from await fetch to await json.
FetchSettle(k, outcome) ==
  /\ run[k].pc = "fetching"
  /\ CASE outcome = "ok" ->
            /\ run' = [run EXCEPT ![k].pc = "parsing"]
            /\ uiEvent' = NoEvent
            /\ UNCHANGED <<userData, loading, error>>
       [] outcome = "status401" ->
            EndRun(k, CatchFinally(Comp, "HTTP error! status: 401"),
                   "failed", JsNull)
       [] outcome = "status500" ->
            EndRun(k, CatchFinally(Comp, "HTTP error! status: 500"),
                   "failed", JsNull)
       [] outcome = "networkError" ->
            EndRun(k, CatchFinally(Comp, "Failed to fetch"), "failed", JsNull)
  /\ UNCHANGED <<isAuthenticated, isLoading, router, layout, effectPending,
                 fetchDue>>
  /\ UNCHANGED routeVars

JsonOutcomes == {"record", "nullUser", "noField", "throws", "nullBody"}

\* response.json() settles: fetchUserData from await json to its return.
JsonSettle(k, outcome) ==
  /\ run[k].pc = "parsing"
  /\ CASE outcome = "record" ->
            EndRun(k, SuccessFinally(Comp, UserRecord("u1")), "loaded",
                   UserRecord("u1"))
       [] outcome = "nullUser" ->
            EndRun(k, SuccessFinally(Comp, JsNull), "loaded", JsNull)
       [] outcome = "noField" ->
            EndRun(k, SuccessFinally(Comp, JsUndefined), "loaded",
                   JsUndefined)
       [] outcome = "throws" ->
            EndRun(k, CatchFinally(Comp, "Unexpected token"), "failed", JsNull)
       [] outcome = "nullBody" ->
            EndRun(k, CatchFinally(Comp, "TypeError"), "failed", JsNull)
  /\ UNCHANGED <<isAuthenticated, isLoading, router, layout, effectPending,
                 fetchDue>>
  /\ UNCHANGED routeVars

UINext ==
  \/ \E hasRouter \in BOOLEAN : Mount(hasRouter)
  \/ \E a \in BOOLEAN, l \in BOOLEAN : AuthChange(a, l)
  \/ Unmount
  \/ LayoutEffect
  \/ UserfrontChanged
  \/ \E k \in Runs, hasToken \in BOOLEAN : StartRun(k, hasToken)
  \/ \E k \in Runs, o \in FetchOutcomes : FetchSettle(k, o)
  \/ \E k \in Runs, o \in JsonOutcomes : JsonSettle(k, o)

UISpec == Init /\ [][UINext]_vars

(***************************************************************************)
(* Vocabulary of the properties                                            *)
(***************************************************************************)
Responded(r) == pc[r] = "Responded"

Unauthorized(msg) == [status |-> 401, body |-> [error |-> msg]]

\* the header reads "Bearer <non-empty token>"
BearerForm(h) ==
  /\ Len(h) >= 2
  /\ h[1] = "Bearer"
  /\ (Len(h) > 2 \/ h[2] # "")

\* t is signed by the issuer with RS256, unexpired, and carries a non-empty
\* userId, and the issuer's public key is the one configured
GoodToken(t) ==
  /\ t \in JwtStrings
  /\ JwtTable[t].alg = "RS256"
  /\ JwtTable[t].sig = [alg |-> "RS256", signer |-> IssuerPriv]
  /\ ~JwtTable[t].expired
  /\ JwtTable[t].payload.type = "object"
  /\ JwtTable[t].payload.userId \in {"u1", "u2"}
  /\ JWT_PUBLIC_KEY = IssuerPub

\* the token the header carries after its first space
Carried(h) == IF Len(h) >= 2 THEN h[2] ELSE Undefined

LookupSucceeded(r) ==
  calls[r].state = "resolved" /\ calls[r].value.type = "object"

LookupFailed(r) ==
  \/ calls[r].state = "rejected"
  \/ calls[r].state = "resolved" /\ calls[r].value.type = "null"

\* jwt.verify ran for r and GET went no further
FailedVerification(r) ==
  Responded(r) /\ verifyCalls[r] > 0 /\ lookupCalls[r] = 0

(***************************************************************************)
(* C1: a 200 response is produced only if the token from the               *)
(* Authorization header passed verification against the configured key,    *)
(* its payload has a non-empty userId, and the user lookup for that userId *)
(* succeeded.                                                              *)
(***************************************************************************)
C1_OkOnlyIfVerifiedAndLookedUp ==
  \A r \in Requests :
    (Responded(r) /\ resp[r][1].status = 200) =>
      /\ GoodToken(Carried(header[r]))
      /\ LookupSucceeded(r)
      /\ calls[r].value.userId = JwtTable[Carried(header[r])].payload.userId

(***************************************************************************)
(* C2: a request with no Authorization header is answered 401 with         *)
(* {"error": "No authorization header"}, and neither jwt.verify nor        *)
(* getUser is invoked for it.                                              *)
(***************************************************************************)
C2_NoHeader ==
  \A r \in Requests :
    (pc[r] # "Idle" /\ header[r] = NoHeader) =>
      /\ verifyCalls[r] = 0
      /\ lookupCalls[r] = 0
      /\ calls[r].state = "none"
      /\ pc[r] \in {"Received", "Responded"}
      /\ Responded(r) => resp[r] = <<Unauthorized("No authorization header")>>

C2_Witness ==
  \E r \in Requests : Responded(r) /\ header[r] = NoHeader

(***************************************************************************)
(* C3: a request whose Authorization header is present but not of the form *)
(* "Bearer <non-empty token>" is answered like a missing header: 401 with  *)
(* {"error": "No authorization header"}.                                   *)
(***************************************************************************)
C3_NonBearerIsNoHeader ==
  \A r \in Requests :
    (Responded(r) /\ header[r] # NoHeader /\ ~BearerForm(header[r])) =>
      resp[r] = <<Unauthorized("No authorization header")>>

(***************************************************************************)
(* C4: any two requests whose tokens fail verification, for whatever       *)
(* reasons, get identical responses, 401 with                              *)
(* {"error": "Authentication failed"}, and the failure kind that was       *)
(* logged is not in the response.                                          *)
(***************************************************************************)
C4_UniformFailure ==
  \A r1, r2 \in Requests :
    (FailedVerification(r1) /\ FailedVerification(r2)) =>
      /\ resp[r1] = resp[r2]
      /\ resp[r1] = <<Unauthorized("Authentication failed")>>
      /\ resp[r1][1].body.error # log[r1]

C4_Witness ==
  \E r1, r2 \in Requests :
    /\ FailedVerification(r1) /\ FailedVerification(r2)
    /\ log[r1] = "jwt expired"
    /\ log[r2] \in {"invalid signature", "invalid algorithm", "jwt malformed",
                    "Invalid token payload"}

(***************************************************************************)
(* C5: when the token verifies but the user lookup fails, by reporting     *)
(* not-found or by raising an error, the response is 401 with              *)
(* {"error": "Authentication failed"}, never 200.                          *)
(***************************************************************************)
C5_LookupFailureIs401 ==
  \A r \in Requests :
    (Responded(r) /\ lookupCalls[r] > 0 /\ LookupFailed(r)) =>
      resp[r] = <<Unauthorized("Authentication failed")>>

(***************************************************************************)
(* C6: a request carrying "Bearer <token>" with a validly signed,          *)
(* unexpired token of userId u, whose lookup succeeds with record rec, is  *)
(* answered 200 with {"userData": rec}; getUser was called with exactly u  *)
(* and rec is the record of u.                                             *)
(***************************************************************************)
C6_ValidTokenGetsOwnRecord ==
  \A r \in Requests :
    LET h == header[r] IN
    (/\ Len(h) = 2 /\ h[1] = "Bearer" /\ GoodToken(h[2])
     /\ pc[r] \notin {"Idle", "Received"}) =>
      LET u == JwtTable[h[2]].payload.userId IN
      /\ lookupCalls[r] = 1
      /\ calls[r].userId = u
      /\ (Responded(r) /\ LookupSucceeded(r)) =>
           /\ calls[r].value.userId = u
           /\ resp[r] = <<[status |-> 200,
                           body |-> [userData |-> calls[r].value]]>>

C6_Witness ==
  \E r \in Requests :
    /\ header[r] = <<"Bearer", "good.u1">>
    /\ Responded(r) /\ LookupSucceeded(r)
    /\ resp[r][1].status = 200
    /\ resp[r][1].body.userData.userId = "u1"

(***************************************************************************)
(* C7: the handler fails closed.  Every response has status 200 or 401;    *)
(* with a missing or invalid public key no request receives 200; every 401 *)
(* carries one of the two fixed messages.                                  *)
(***************************************************************************)
C7_FailsClosed ==
  \A r \in Requests : \A i \in DOMAIN resp[r] :
    /\ resp[r][i].status \in {200, 401}
    /\ resp[r][i].status = 401 =>
         resp[r][i].body.error \in
           {"No authorization header", "Authentication failed"}
    /\ JWT_PUBLIC_KEY \in {MissingKey, GarbageKey} => resp[r][i].status # 200

C7_Witness ==
  \E r1, r2 \in Requests :
    /\ JWT_PUBLIC_KEY = MissingKey
    /\ header[r1] = <<"Bearer", "good.u1">>
    /\ header[r2] = <<"Bearer", "nosig.u1">>
    /\ Responded(r1) /\ resp[r1][1].status = 401
    /\ Responded(r2) /\ resp[r2][1].status = 401

(***************************************************************************)
(* C8: every received request eventually reaches exactly one terminal      *)
(* state, Responded(200) or Responded(401), given that the lookup returns  *)
(* or fails; there is one response per request and no step of the request  *)
(* after it.                                                               *)
(***************************************************************************)
C8_OneTerminalState ==
  /\ \A r \in Requests :
       (pc[r] = "Received") ~>
         (/\ Responded(r)
          /\ Len(resp[r]) = 1
          /\ resp[r][1].status \in {200, 401})
  /\ [](\A r \in Requests :
          /\ Len(resp[r]) <= 1
          /\ Len(resp[r]) = 1 <=> Responded(r))
  /\ [][\A r \in Requests :
          Responded(r) =>
            /\ pc'[r] = pc[r]
            /\ resp'[r] = resp[r]
            /\ calls'[r] = calls[r]
            /\ log'[r] = log[r]
            /\ verifyCalls'[r] = verifyCalls[r]
            /\ lookupCalls'[r] = lookupCalls[r]]_vars

C8_Witness ==
  \E r1, r2 \in Requests :
    /\ Responded(r1) /\ lookupCalls[r1] = 1 /\ resp[r1][1].status = 200
    /\ Responded(r2) /\ lookupCalls[r2] = 1 /\ resp[r2][1].status = 401

(***************************************************************************)
(* C9: the handler mutates no state shared between requests, and under any *)
(* interleaving the response to a request is the one it would get handled  *)
(* alone: a function of its own Authorization header and of the result of  *)
(* the lookup for its own userId.                                          *)
(***************************************************************************)
\* GET run from entry to return on header h, with `outcome` what the lookup
\* of the userId in h's token gives
HandledAlone(h, outcome) ==
  IF IsFalsy(h) THEN NoHeaderResponse
  ELSE LET v == JwtVerify(ExtractToken(h), JWT_PUBLIC_KEY) IN
       IF v.threw \/ PayloadInvalid(v.value) THEN CatchResponse("")
       ELSE CASE outcome = "record" -> OkResponse(UserRecord(v.value.userId))
              [] outcome = "notfound" -> OkResponse(JsNull)
              [] outcome = "error" -> CatchResponse("")

\* what the collaborator did with the call of request r
OutcomeOf(r) ==
  IF calls[r].state = "rejected" THEN "error"
  ELSE IF calls[r].value.type = "object" THEN "record"
  ELSE "notfound"

\* the state that belongs to request r
Own(r) == <<pc[r], header[r], calls[r], resp[r], log[r], verifyCalls[r],
            lookupCalls[r], cancelled[r]>>

C9_Isolation ==
  /\ [](\A r \in Requests :
          Responded(r) => resp[r] = <<HandledAlone(header[r], OutcomeOf(r))>>)
  /\ [][/\ JWT_PUBLIC_KEY' = JWT_PUBLIC_KEY
        /\ \A r1, r2 \in Requests :
             (Own(r1)' # Own(r1) /\ Own(r2)' # Own(r2)) => r1 = r2]_vars

C9_Witness ==
  \E r1, r2 \in Requests :
    /\ pc[r1] = "AwaitingLookup" /\ calls[r1].state = "resolved"
    /\ calls[r1].value.type = "null" /\ calls[r1].userId = "u1"
    /\ Responded(r2) /\ resp[r2][1].status = 200
    /\ resp[r2][1].body.userData = UserRecord("u2")

(***************************************************************************)
(* C10: a request cancelled or timed out while its lookup is outstanding   *)
(* gets no response body from the handler.                                 *)
(***************************************************************************)
C10_CancelledGetsNoResponse ==
  \A r \in Requests : cancelled[r] => resp[r] = << >>

(***************************************************************************)
(* C11: a token whose payload has no userId, or an empty one, is rejected  *)
(* even when its signature and expiry checks pass: the request is answered *)
(* 401 and getUser is not invoked for it.                                  *)
(***************************************************************************)
\* t decodes to an object payload without a usable userId
NoSubject(t) ==
  /\ t \in JwtStrings
  /\ JwtTable[t].payload.type = "object"
  /\ JwtTable[t].payload.userId \in {Undefined, ""}

C11_MissingSubjectRejected ==
  \A r \in Requests :
    (pc[r] \notin {"Idle", "Received"} /\ NoSubject(Carried(header[r]))) =>
      /\ Responded(r)
      /\ resp[r] = <<Unauthorized("Authentication failed")>>
      /\ lookupCalls[r] = 0
      /\ calls[r].state = "none"

\* both kinds of missing subject, on tokens that passed signature and expiry
C11_Witness ==
  \E r1, r2 \in Requests :
    /\ JWT_PUBLIC_KEY = IssuerPub
    /\ Carried(header[r1]) = "nouserid" /\ Carried(header[r2]) = "emptyuserid"
    /\ Responded(r1) /\ log[r1] = "Invalid token payload"
    /\ Responded(r2) /\ log[r2] = "Invalid token payload"

(***************************************************************************)
(* C12: within one request the steps run in the order header check, token  *)
(* verification, user lookup, response, without retries: jwt.verify runs   *)
(* at most once, getUser at most once and only after the request's token   *)
(* verified, and a failed step goes straight to Responded(401) with no     *)
(* later step executed.                                                    *)
(***************************************************************************)
C12_OrderedNoRetry ==
  \A r \in Requests :
    /\ verifyCalls[r] <= 1
    /\ lookupCalls[r] <= 1
    \* the lookup only after a verification that succeeded
    /\ lookupCalls[r] = 1 =>
         verifyCalls[r] = 1 /\ GoodToken(Carried(header[r]))
    \* no response before the lookup has returned
    /\ calls[r].state = "pending" => resp[r] = << >>
    \* failed header check: nothing else runs
    /\ (pc[r] # "Idle" /\ header[r] = NoHeader) =>
         verifyCalls[r] = 0 /\ lookupCalls[r] = 0
    \* failed verification: straight to Responded(401)
    /\ (verifyCalls[r] = 1 /\ ~GoodToken(Carried(header[r]))) =>
         /\ Responded(r) /\ resp[r][1].status = 401
         /\ lookupCalls[r] = 0
    \* failed lookup: Responded(401)
    /\ (Responded(r) /\ lookupCalls[r] = 1 /\ LookupFailed(r)) =>
         resp[r][1].status = 401

(***************************************************************************)
(* C13: across any sequence of changes of the authentication state,        *)
(* SecureLayout renders its children only while isAuthenticated is true    *)
(* and isLoading is false, and nothing otherwise; it pushes /login only    *)
(* when both are false, never while loading and never for an authenticated *)
(* user.                                                                   *)
(***************************************************************************)
C13_SecureLayout ==
  /\ layout # "unmounted" =>
       /\ layout = "children" <=> (isAuthenticated /\ ~isLoading)
       /\ layout = "null" <=> (~isAuthenticated \/ isLoading)
  /\ uiEvent.kind = "push" => (~isAuthenticated /\ ~isLoading)

\* a redirect issued after the user had been shown the children and the
\* authentication state changed
C13_Witness ==
  /\ uiEvent.kind = "push"
  /\ layout = "null"
  /\ \E k \in Runs : run[k].pc # "idle" /\ ~run[k].live

(***************************************************************************)
(* C14: every run of fetchUserData ends with loading false, on every path; *)
(* without an access token no request is sent and error is 'Not            *)
(* authenticated'; userData is assigned only from the body of an ok        *)
(* response, a non-ok response or a thrown error sets error and leaves     *)
(* userData as it was.                                                     *)
(***************************************************************************)
RunEnded == uiEvent.kind \in {"notAuthenticated", "failed", "loaded"}

FetchErrors ==
  {ErrorText(m) : m \in {"HTTP error! status: 401", "HTTP error! status: 500",
                         "Failed to fetch", "Unexpected token", "TypeError"}}

C14_FetchUserData ==
  /\ [](/\ (RunEnded /\ uiEvent.live) => loading = FALSE
        /\ uiEvent.kind = "notAuthenticated" => error = "Not authenticated"
        /\ (uiEvent.kind = "failed" /\ uiEvent.live) =>
             (error \in FetchErrors /\ error # NullError)
        /\ (uiEvent.kind = "loaded" /\ uiEvent.live) =>
             userData = uiEvent.value)
  /\ [][/\ uiEvent'.kind = "notAuthenticated" =>
             \* no request leaves
             (run' = run /\ userData' = userData)
        /\ uiEvent'.kind = "failed" => userData' = userData
        /\ userData' # userData =>
             \/ uiEvent'.kind = "loaded" /\ userData' = uiEvent'.value
             \* UserDataComponent mounted or unmounted
             \/ (layout' = "children") # (layout = "children")]_vars

\* a run that failed after an earlier one had loaded a record
C14_Witness ==
  /\ uiEvent.kind = "failed" /\ uiEvent.live
  /\ userData = UserRecord("u1")
  /\ error = "Error fetching user data: HTTP error! status: 401"
  /\ loading = FALSE

====
